---- MODULE Spec2Model ----
(***************************************************************************)
(* A model of LamaHDataset (src/dataset.py): the one-time build of the     *)
(* pruned drainage graph and the per-gauge statistics (process), the load  *)
(* of the persisted artefacts (__init__), the flat sample index (len, get, *)
(* _decode_index) and the normalisation pair (normalize, denormalize).     *)
(*                                                                         *)
(* Three specifications share the module's variables:                      *)
(*   SpecIndex     __init__'s year_sizes, len, _decode_index, get          *)
(*   SpecTopology  process() followed by the load of gauges, mean and std  *)
(*   SpecNorm      normalize / denormalize on stored statistics            *)
(* Each leaves the variables of the other two at their idle values.        *)
(***************************************************************************)
EXTENDS Integers, Sequences, FiniteSets, TLC

VARIABLES
    \* ---- the sample index (SpecIndex)
    years,              \* self.years: the configured years, in order
    window_size_hrs,    \* self.window_size_hrs
    stride_length_hrs,  \* self.stride_length_hrs
    lead_time_hrs,      \* self.lead_time_hrs
    year_sizes,         \* self.year_sizes
    year_tensors,       \* self.year_tensors, each by its number of columns
    call,               \* the last public call and its argument
    ret,                \* what that call returned
    \* ---- the build and the load (SpecTopology)
    pc,                 \* position in process() / __init__
    stream_csv,         \* Stream_dist.csv, the raw rows in file order
    stream_dist,        \* the working DataFrame, rows in order
    connected_gauges,
    danube_gauges,
    visited,            \* gauges the filter loop has iterated over
    last_ts,            \* the hourly file read by the latest filter iteration
    feasible_gauges,
    qobs_statistics,    \* rows [ID, mean, std] in insertion order
    removed,            \* gauges the removal loop has iterated over
    adjacency_csv,      \* processed_paths[0] as written
    statistics_csv,     \* processed_paths[1] as written
    gauges,             \* self.gauges
    edge_index,         \* self.edge_index
    edge_attr,          \* self.edge_attr
    normalized,         \* self.normalized
    load_norm,          \* per gauge, the (mean, std) load-time normalisation applied
    mean,               \* self.mean
    std,                \* self.std
    failure,            \* the exception that ended the build and its line, or "none"
    \* ---- normalisation (SpecNorm)
    norm_call,          \* the last normalize/denormalize call: op, arg, ret
    norm_prev           \* the call before it

indexVars == <<years, window_size_hrs, stride_length_hrs, lead_time_hrs,
               year_sizes, year_tensors, call, ret>>
buildVars == <<pc, stream_csv, stream_dist, connected_gauges, danube_gauges,
               visited, last_ts, feasible_gauges, qobs_statistics, removed,
               adjacency_csv, statistics_csv, gauges, edge_index, edge_attr,
               normalized, load_norm, failure>>
statVars  == <<mean, std>>
normVars  == <<norm_call, norm_prev>>
vars == <<indexVars, buildVars, statVars, normVars>>

(***************************************************************************)
(* Bounds of the model.                                                    *)
(***************************************************************************)
MaxYears == 2       \* longest configured list of years
Near == 1           \* flat indices are drawn within Near of a year boundary
MaxEdges == 4       \* most rows of the raw stream table
NormGauges == 2     \* gauges in the normalisation vectors

(***************************************************************************)
(* Program constants.                                                      *)
(***************************************************************************)
FirstYear == 2000
LastYear == 2017
Outlet == 399

Min(a, b) == IF a < b THEN a ELSE b
Max(a, b) == IF a < b THEN b ELSE a

RECURSIVE SumSeq(_)
SumSeq(s) == IF s = <<>> THEN 0 ELSE s[1] + SumSeq(Tail(s))

\* Python's a // b for b > 0 (floor division).
FloorDiv(a, b) == a \div b

(***************************************************************************)
(*                         THE SAMPLE INDEX                                *)
(***************************************************************************)

\* Days of a calendar year (Gregorian): the hourly rows a gauge's file holds
\* for one year, 24 per day.
IsLeapYear(y) == (y % 4 = 0 /\ y % 100 # 0) \/ y % 400 = 0
HoursOfYear(y) == 24 * (IF IsLeapYear(y) THEN 366 ELSE 365)

\* The years a configuration draws from: the reference period's first and
\* last years and their neighbours (2000 and 2016 are leap years).
YearChoices == {FirstYear, FirstYear + 1, FirstYear + 3, LastYear - 1, LastYear}
WindowSizes == {1, 24, 8750}
LeadTimes == {1, 6, 20}
StrideLengths == {1, 7, 3000}

YearLists == UNION {[1..n -> YearChoices] : n \in 1..MaxYears}

YearSize_NoLeap(year, window_size, lead_time, stride_length) ==
    FloorDiv(24 * 365 - (window_size + lead_time), stride_length) + 1

\* dataset.py:21  one element of the year_sizes comprehension
YearSize(year, window_size, lead_time, stride_length) ==
    FloorDiv(24 * (365 + (IF year % 4 = 0 THEN 1 ELSE 0)) - (window_size + lead_time),
             stride_length) + 1

\* dataset.py:119-120
len == SumSeq(year_sizes)

DecodeOffset_NoStride(idx, size) == idx + size

\* dataset.py:138  the offset returned for the matching year
DecodeOffset(idx, size) == stride_length_hrs * (idx + size)

\* dataset.py:135-139  the loop from position i on, idx not yet reduced by
\* year_sizes[i]; positions are reported zero-based as enumerate gives them.
RECURSIVE DecodeFrom(_, _)
DecodeFrom(i, idx) ==
    IF i > Len(year_sizes)
    THEN [raised |-> "AssertionError", year |-> -1, offset |-> 0]
    ELSE LET size == year_sizes[i]
             rest == idx - size
         IN  IF rest < 0
             THEN [raised |-> "none", year |-> i - 1, offset |-> DecodeOffset(rest, size)]
             ELSE DecodeFrom(i + 1, rest)

\* dataset.py:134-139
decode_index(idx) == DecodeFrom(1, idx)

TargetColumn_NoMinusOne(offset) == offset + window_size_hrs + lead_time_hrs

\* dataset.py:125  the column of the target
TargetColumn(offset) == offset + window_size_hrs + (lead_time_hrs - 1)

\* dataset.py:122-126  x is the slice [x_from, x_to) of the year tensor's
\* columns (a slice is clipped to the tensor, an index is not), y one column.
get(idx) ==
    LET d == decode_index(idx) IN
    IF d.raised # "none"
    THEN [raised |-> d.raised, year |-> -1, x_from |-> 0, x_to |-> 0, y |-> 0]
    ELSE LET cols == year_tensors[d.year + 1]
             ycol == TargetColumn(d.offset)
         IN  IF ycol >= cols
             THEN [raised |-> "IndexError", year |-> d.year, x_from |-> 0, x_to |-> 0, y |-> 0]
             ELSE [raised |-> "none", year |-> d.year,
                   x_from |-> Min(d.offset, cols),
                   x_to |-> Min(d.offset + window_size_hrs, cols),
                   y |-> ycol]

\* The flat indices a call is made with: those within Near of the start of a
\* year's range or of the end of the index space, and len itself (one past).
RECURSIVE PrefixSums(_)
PrefixSums(s) ==
    IF s = <<>> THEN {0}
    ELSE {0} \cup {s[1] + p : p \in PrefixSums(Tail(s))}

IdxChoices ==
    {b + d : b \in PrefixSums(year_sizes), d \in (0 - Near)..Near} \cap 0..Max(len, 0)

\* dataset.py:16-22, 36-45  the index part of __init__
InitIndex ==
    /\ years \in YearLists
    /\ window_size_hrs \in WindowSizes
    /\ stride_length_hrs \in StrideLengths
    /\ lead_time_hrs \in LeadTimes
    /\ year_sizes = [k \in 1..Len(years) |->
                        YearSize(years[k], window_size_hrs, lead_time_hrs, stride_length_hrs)]
    /\ year_tensors = [k \in 1..Len(years) |-> HoursOfYear(years[k])]
    /\ call = [op |-> "init", idx |-> 0]
    /\ ret = [raised |-> "none"]
    /\ pc = "idle" /\ stream_csv = <<>> /\ stream_dist = <<>>
    /\ connected_gauges = {} /\ danube_gauges = {} /\ visited = {}
    /\ last_ts = [gauge |-> 0]
    /\ feasible_gauges = {} /\ qobs_statistics = <<>> /\ removed = {}
    /\ adjacency_csv = <<>> /\ statistics_csv = <<>>
    /\ gauges = <<>> /\ edge_index = <<>> /\ edge_attr = <<>>
    /\ normalized = FALSE /\ load_norm = <<>> /\ failure = "none"
    /\ mean = <<>> /\ std = <<>>
    /\ norm_call = [op |-> "idle"] /\ norm_prev = [op |-> "idle"]

CallLen ==
    /\ call' = [op |-> "len", idx |-> 0]
    /\ ret' = [raised |-> "none", value |-> len]
    /\ UNCHANGED <<years, window_size_hrs, stride_length_hrs, lead_time_hrs,
                   year_sizes, year_tensors>>
    /\ UNCHANGED <<buildVars, statVars, normVars>>

CallDecode ==
    \E idx \in IdxChoices :
        /\ call' = [op |-> "decode", idx |-> idx]
        /\ ret' = decode_index(idx)
        /\ UNCHANGED <<years, window_size_hrs, stride_length_hrs, lead_time_hrs,
                       year_sizes, year_tensors>>
        /\ UNCHANGED <<buildVars, statVars, normVars>>

CallGet ==
    \E idx \in IdxChoices :
        /\ call' = [op |-> "get", idx |-> idx]
        /\ ret' = get(idx)
        /\ UNCHANGED <<years, window_size_hrs, stride_length_hrs, lead_time_hrs,
                       year_sizes, year_tensors>>
        /\ UNCHANGED <<buildVars, statVars, normVars>>


NextIndex ==
    \/ CallLen
    \/ CallDecode
    \/ CallGet

SpecIndex == InitIndex /\ [][NextIndex]_vars

(***************************************************************************)
(* Claims about the sample index.                                          *)
(***************************************************************************)
ValidParams == window_size_hrs >= 1 /\ lead_time_hrs >= 1 /\ stride_length_hrs >= 1

\* window_size + lead_time fits the hours of every configured year
FitsEveryYear ==
    \A k \in 1..Len(years) : window_size_hrs + lead_time_hrs <= year_tensors[k]

\* The sample count the specification states for one year.
StatedYearSize(y) ==
    FloorDiv((IF IsLeapYear(y) THEN 8784 ELSE 8760) - window_size_hrs - lead_time_hrs,
             stride_length_hrs) + 1

\* C1: for valid parameters that fit every configured year and a flat index
\* 0 <= i < len(), _decode_index(i) returns without raising, selects a
\* position k of the configured years and an offset that is a multiple of the
\* stride inside year k's range, and year_sizes[0..k-1] summed plus
\* offset / stride is i again.
C1_DecodeRoundTrip ==
    (call.op = "decode" /\ ValidParams /\ FitsEveryYear
        /\ 0 <= call.idx /\ call.idx < len)
    => /\ ret.raised = "none"
       /\ ret.year \in 0..(Len(years) - 1)
       /\ ret.offset >= 0
       /\ ret.offset % stride_length_hrs = 0
       /\ ret.offset \div stride_length_hrs < year_sizes[ret.year + 1]
       /\ SumSeq(SubSeq(year_sizes, 1, ret.year)) + (ret.offset \div stride_length_hrs)
            = call.idx

\* a decode into the second configured year at a positive offset, stride > 1
C1_Witness ==
    /\ call.op = "decode" /\ ValidParams /\ FitsEveryYear
    /\ 0 <= call.idx /\ call.idx < len
    /\ stride_length_hrs > 1
    /\ ret.raised = "none" /\ ret.year = 1 /\ ret.offset > 0

C3_GetInRange ==
    /\ (call.op = "get" /\ ValidParams /\ 0 <= call.idx /\ call.idx < len)
       => LET d == decode_index(call.idx)
              cols == year_tensors[d.year + 1]
          IN  /\ d.raised = "none"
              /\ ret.raised = "none"
              /\ ret.year = d.year
              /\ ret.x_from = d.offset
              /\ ret.x_to = d.offset + window_size_hrs
              /\ ret.y = d.offset + window_size_hrs + lead_time_hrs - 1
              /\ 0 <= ret.x_from /\ ret.x_to <= cols
              /\ ret.x_to <= ret.y /\ ret.y < cols
    /\ (call.op # "idle" /\ window_size_hrs = 24 /\ lead_time_hrs = 6
            /\ stride_length_hrs = 1 /\ year_tensors[1] = 8760)
       => /\ year_sizes[1] = 8731
          /\ (call.op = "get" /\ call.idx = 0)
             => (ret.raised = "none" /\ ret.year = 0 /\ ret.x_from = 0
                 /\ ret.x_to = 24 /\ ret.y = 29)

\* the last sample of a year, whose target is the year's last column
C3_Witness ==
    /\ call.op = "get" /\ ValidParams /\ 0 <= call.idx /\ call.idx < len
    /\ ret.raised = "none"
    /\ ret.y = year_tensors[ret.year + 1] - 1
    /\ ret.x_from > 0


(***************************************************************************)
(*                    THE BUILD: process()                                 *)
(***************************************************************************)

\* The gauges of the model's stream tables: the outlet, two gauges below it
\* in number and one above.
GaugeIDs == {Outlet - 2, Outlet - 1, Outlet, Outlet + 1}

\* The attributes the raw file gives the segment u -> v.
RawDist(u, v) == 10 * (u % 10) + (v % 10)
RawElev(u, v) == (u % 10) + 3 * (v % 10)

RawRow(u, v) ==
    [ID |-> u, NEXTDOWNID |-> v, dist_hdn |-> RawDist(u, v),
     elev_diff |-> RawElev(u, v), strm_slope |-> "raw"]

Range(f) == {f[i] : i \in DOMAIN f}

\* The gauges reachable from the set S along the edges R (S included).
RECURSIVE ReachableFrom(_, _)
ReachableFrom(R, S) ==
    LET N == S \cup {e[2] : e \in {f \in R : f[1] \in S}}
    IN  IF N = S THEN S ELSE ReachableFrom(R, N)

\* v is reached from u along one or more edges of R
Reaches(R, u, v) == v \in ReachableFrom(R, {e[2] : e \in {f \in R : f[1] = u}})

IsAcyclic(R) == \A g \in GaugeIDs : ~Reaches(R, g, g)

\* A set of integers as the ascending sequence sorted() returns.
RECURSIVE SortedSeq(_)
SortedSeq(S) ==
    IF S = {} THEN <<>>
    ELSE LET m == CHOOSE x \in S : \A y \in S : x <= y
         IN  <<m>> \o SortedSeq(S \ {m})

\* The acyclic stream tables of at most MaxEdges segments, rows in (ID,
\* NEXTDOWNID) order.
EdgeSets ==
    {E \in SUBSET {e \in GaugeIDs \X GaugeIDs : e[1] # e[2]} :
        Cardinality(E) <= MaxEdges /\ IsAcyclic(E)}

EdgeOrder(E) == SortedSeq({1000 * e[1] + e[2] : e \in E})

StreamTable(E) ==
    LET o == EdgeOrder(E)
    IN  [i \in 1..Len(o) |-> RawRow(o[i] \div 1000, o[i] % 1000)]

\* The hourly files a gauge may have: complete, with a negative reading,
\* short of the reference period's rows, or with the full row count but a
\* boundary row that is not the expected one.
RefHours == (18 * 365 + 5) * 24
RefFirst == <<2000, 1, 1, 0, 0>>
RefLast == <<2017, 12, 31, 23, 0>>

TsFile(g, lowest, rows, first, last) ==
    [gauge |-> g, qobs_min |-> lowest, ref_rows |-> rows, ref_first |-> first,
     ref_last |-> last, qobs_mean |-> g + 1, qobs_std |-> g + 2,
     qobs_median |-> g, qobs_max |-> 2 * g]

TsFiles(g) ==
    { TsFile(g, 0, RefHours, RefFirst, RefLast),
      TsFile(g, -1, RefHours, RefFirst, RefLast),
      TsFile(g, 0, RefHours - 24, RefFirst, <<2017, 12, 30, 23, 0>>),
      TsFile(g, 0, RefHours, <<2000, 1, 1, 1, 0>>, RefLast),
      TsFile(g, 0, RefHours, RefFirst, <<2017, 12, 31, 22, 0>>),
      TsFile(g, -1, RefHours, <<2000, 1, 1, 1, 0>>, RefLast) }

\* dataset.py:66  drop(columns="strm_slope")
DropSlope(row) ==
    [ID |-> row.ID, NEXTDOWNID |-> row.NEXTDOWNID,
     dist_hdn |-> row.dist_hdn, elev_diff |-> row.elev_diff]

\* dataset.py:69
Predecessors(id) ==
    {stream_dist[i].ID : i \in {j \in DOMAIN stream_dist : stream_dist[j].NEXTDOWNID = id}}

collect_upstream_NoRecursion(id) == {id} \cup Predecessors(id)

\* dataset.py:68-73
RECURSIVE collect_upstream(_)
collect_upstream(id) ==
    LET predecessors == Predecessors(id)
    IN  IF Cardinality(predecessors) = 0
        THEN {id}
        ELSE {id} \cup UNION {collect_upstream(pred) : pred \in predecessors}

\* dataset.py:75
ConnectedGauges(tbl) ==
    {tbl[i].ID : i \in DOMAIN tbl} \cup {tbl[i].NEXTDOWNID : i \in DOMAIN tbl}

PassesFilter_NoRowCount(ts) == ts.qobs_min >= 0

\* dataset.py:84-86  the two conditions under which a gauge is kept
PassesFilter(ts) == ts.qobs_min >= 0 /\ ts.ref_rows = RefHours

\* dataset.py:90-91  the asserted boundary rows
BoundariesMatch(ts) == ts.ref_first = RefFirst /\ ts.ref_last = RefLast

\* dataset.py:88-89  the row qobs_statistics.loc[gauge_id] is set to
StatisticsRow(ts) ==
    [ID |-> ts.gauge, mean |-> ts.qobs_mean, std |-> ts.qobs_std,
     min |-> ts.qobs_min, median |-> ts.qobs_median, max |-> ts.qobs_max]

\* the rows at the positions of a table that are not among the labels
RECURSIVE DropLabels(_, _, _)
DropLabels(tbl, labels, i) ==
    IF i > Len(tbl) THEN <<>>
    ELSE (IF i \in labels THEN <<>> ELSE <<tbl[i]>>) \o DropLabels(tbl, labels, i + 1)

\* dataset.py:96-97  the index labels of the incoming and outgoing edges
IncomingLabels(tbl, gauge_id) == {i \in DOMAIN tbl : tbl[i].NEXTDOWNID = gauge_id}
OutgoingLabels(tbl, gauge_id) == {i \in DOMAIN tbl : tbl[i].ID = gauge_id}

RemainingRows_KeepOutgoing(tbl, gauge_id) ==
    DropLabels(tbl, IncomingLabels(tbl, gauge_id), 1)

\* dataset.py:99-100  the table after both drops
RemainingRows(tbl, gauge_id) ==
    DropLabels(tbl, IncomingLabels(tbl, gauge_id) \cup OutgoingLabels(tbl, gauge_id), 1)

BypassRow_IncomingDistance(inc, out) ==
    [ID |-> inc.ID, NEXTDOWNID |-> out.NEXTDOWNID,
     dist_hdn |-> inc.dist_hdn, elev_diff |-> inc.elev_diff + out.elev_diff]

\* dataset.py:102-106  one row of the cross merge, as it is appended
BypassRow(inc, out) ==
    [ID |-> inc.ID, NEXTDOWNID |-> out.NEXTDOWNID,
     dist_hdn |-> inc.dist_hdn + out.dist_hdn,
     elev_diff |-> inc.elev_diff + out.elev_diff]

Bypass_None(tbl, gauge_id) == <<>>

\* dataset.py:102  the cross merge: every incoming row with every outgoing
\* row, incoming rows in order and outgoing rows in order within each
Bypass(tbl, gauge_id) ==
    LET inc == SortedSeq(IncomingLabels(tbl, gauge_id))
        out == SortedSeq(OutgoingLabels(tbl, gauge_id))
        n == Len(out)
    IN  [k \in 1..(Len(inc) * n) |->
            BypassRow(tbl[inc[((k - 1) \div n) + 1]], tbl[out[((k - 1) % n) + 1]])]

\* dataset.py:112  elev_diff / dist_hdn, kept as the pair it is computed from
WithSlope(row) ==
    [ID |-> row.ID, NEXTDOWNID |-> row.NEXTDOWNID, dist_hdn |-> row.dist_hdn,
     elev_diff |-> row.elev_diff, strm_slope |-> <<row.elev_diff, row.dist_hdn>>]

RemoveAt(tbl, i) == SubSeq(tbl, 1, i - 1) \o SubSeq(tbl, i + 1, Len(tbl))

\* dataset.py:113  sort_values(by="ID"): the orders by ascending ID; the
\* default sort is not stable, so rows of equal ID come in any order.
RECURSIVE SortedByID(_)
SortedByID(tbl) ==
    IF tbl = <<>> THEN {<<>>}
    ELSE LET firsts == {i \in DOMAIN tbl : \A j \in DOMAIN tbl : tbl[i].ID <= tbl[j].ID}
         IN  UNION {{<<tbl[i]>> \o rest : rest \in SortedByID(RemoveAt(tbl, i))} : i \in firsts}

\* dataset.py:42  statistics.loc[gauge_id, ...]
StatisticsLoc(statistics, gauge_id) ==
    LET hits == {i \in DOMAIN statistics : statistics[i].ID = gauge_id}
    IN  IF hits = {} THEN "KeyError"
        ELSE LET i == CHOOSE i \in hits : TRUE
             IN  <<statistics[i].mean, statistics[i].std>>

\* position of a gauge in self.gauges, zero-based (rev_index, dataset.py:26)
RevIndex(gs, gauge_id) == (CHOOSE i \in DOMAIN gs : gs[i] = gauge_id) - 1


\* The state before process() runs: the raw files as downloaded.
InitTopology ==
    /\ stream_csv \in {StreamTable(E) : E \in EdgeSets}
    /\ pc = "start"
    /\ stream_dist = <<>>
    /\ connected_gauges = {} /\ danube_gauges = {} /\ visited = {}
    /\ last_ts = [gauge |-> 0]
    /\ feasible_gauges = {} /\ qobs_statistics = <<>> /\ removed = {}
    /\ adjacency_csv = <<>> /\ statistics_csv = <<>>
    /\ gauges = <<>> /\ edge_index = <<>> /\ edge_attr = <<>>
    /\ normalized = FALSE /\ load_norm = <<>> /\ failure = "none"
    /\ mean = <<>> /\ std = <<>>
    /\ years = <<>> /\ window_size_hrs = 0 /\ stride_length_hrs = 0
    /\ lead_time_hrs = 0 /\ year_sizes = <<>> /\ year_tensors = <<>>
    /\ call = [op |-> "idle", idx |-> 0]
    /\ ret = [raised |-> "none"]
    /\ norm_call = [op |-> "idle"] /\ norm_prev = [op |-> "idle"]

\* dataset.py:65-66
ReadStreamDist ==
    /\ pc = "start"
    /\ stream_dist' = [i \in DOMAIN stream_csv |-> DropSlope(stream_csv[i])]
    /\ pc' = "collect"
    /\ UNCHANGED <<stream_csv, connected_gauges, danube_gauges, visited, last_ts,
                   feasible_gauges, qobs_statistics, removed, adjacency_csv,
                   statistics_csv, gauges, edge_index, edge_attr, normalized,
                   load_norm, failure>>
    /\ UNCHANGED <<indexVars, statVars, normVars>>

\* dataset.py:75-77
CollectUpstream ==
    /\ pc = "collect"
    /\ connected_gauges' = ConnectedGauges(stream_dist)
    /\ danube_gauges' = collect_upstream(Outlet)
    /\ IF danube_gauges' \subseteq connected_gauges'
       THEN pc' = "filter" /\ failure' = failure
       ELSE pc' = "aborted" /\ failure' = "AssertionError@77"
    /\ UNCHANGED <<stream_csv, stream_dist, visited, last_ts, feasible_gauges,
                   qobs_statistics, removed, adjacency_csv, statistics_csv,
                   gauges, edge_index, edge_attr, normalized, load_norm>>
    /\ UNCHANGED <<indexVars, statVars, normVars>>

\* dataset.py:81-91  one iteration of the filter loop; a set is iterated in
\* no particular order
FilterGauge ==
    /\ pc = "filter"
    /\ \E gauge_id \in danube_gauges \ visited :
       \E ts \in TsFiles(gauge_id) :
         /\ visited' = visited \cup {gauge_id}
         /\ last_ts' = ts
         /\ IF PassesFilter(ts)
            THEN /\ feasible_gauges' = feasible_gauges \cup {gauge_id}
                 /\ qobs_statistics' = Append(qobs_statistics, StatisticsRow(ts))
                 /\ IF BoundariesMatch(ts)
                    THEN pc' = pc /\ failure' = failure
                    ELSE pc' = "aborted" /\ failure' = "AssertionError@90"
            ELSE UNCHANGED <<feasible_gauges, qobs_statistics, pc, failure>>
    /\ UNCHANGED <<stream_csv, stream_dist, connected_gauges, danube_gauges,
                   removed, adjacency_csv, statistics_csv, gauges, edge_index,
                   edge_attr, normalized, load_norm>>
    /\ UNCHANGED <<indexVars, statVars, normVars>>

\* dataset.py:92-93  the loop is over; the outlet must be feasible
EndFilter ==
    /\ pc = "filter"
    /\ visited = danube_gauges
    /\ IF Outlet \in feasible_gauges
       THEN pc' = "remove" /\ failure' = failure
       ELSE pc' = "aborted" /\ failure' = "AssertionError@93"
    /\ UNCHANGED <<stream_csv, stream_dist, connected_gauges, danube_gauges,
                   visited, last_ts, feasible_gauges, qobs_statistics, removed,
                   adjacency_csv, statistics_csv, gauges, edge_index, edge_attr,
                   normalized, load_norm>>
    /\ UNCHANGED <<indexVars, statVars, normVars>>

\* dataset.py:95-109  one iteration of the removal loop
RemoveGauge ==
    /\ pc = "remove"
    /\ \E gauge_id \in (connected_gauges \ feasible_gauges) \ removed :
         /\ stream_dist' = RemainingRows(stream_dist, gauge_id) \o Bypass(stream_dist, gauge_id)
         /\ removed' = removed \cup {gauge_id}
    /\ UNCHANGED <<pc, stream_csv, connected_gauges, danube_gauges, visited,
                   last_ts, feasible_gauges, qobs_statistics, adjacency_csv,
                   statistics_csv, gauges, edge_index, edge_attr, normalized,
                   load_norm, failure>>
    /\ UNCHANGED <<indexVars, statVars, normVars>>

\* dataset.py:111-117
SaveArtefacts ==
    /\ pc = "remove"
    /\ removed = connected_gauges \ feasible_gauges
    /\ \E sorted \in SortedByID([i \in DOMAIN stream_dist |-> WithSlope(stream_dist[i])]) :
         /\ stream_dist' = sorted
         /\ adjacency_csv' = sorted
    /\ statistics_csv' = qobs_statistics
    /\ pc' = "saved"
    /\ UNCHANGED <<stream_csv, connected_gauges, danube_gauges, visited, last_ts,
                   feasible_gauges, qobs_statistics, removed, gauges, edge_index,
                   edge_attr, normalized, load_norm, failure>>
    /\ UNCHANGED <<indexVars, statVars, normVars>>

\* dataset.py:19, 24-34, 38-42  __init__ reading the persisted artefacts
LoadDataset ==
    /\ pc = "saved"
    /\ \E flag \in BOOLEAN :
       LET adjacency == adjacency_csv
           gs == SortedSeq(ConnectedGauges(adjacency))
           statistics == statistics_csv
           looked == [i \in DOMAIN gs |-> StatisticsLoc(statistics, gs[i])]
       IN  /\ normalized' = flag
           /\ gauges' = gs
           /\ edge_index' = [i \in DOMAIN adjacency |->
                                <<RevIndex(gs, adjacency[i].ID),
                                  RevIndex(gs, adjacency[i].NEXTDOWNID)>>]
           /\ edge_attr' = [i \in DOMAIN adjacency |->
                                <<adjacency[i].dist_hdn, adjacency[i].elev_diff,
                                  adjacency[i].strm_slope>>]
           /\ mean' = [i \in DOMAIN statistics |-> statistics[i].mean]
           /\ std' = [i \in DOMAIN statistics |-> statistics[i].std]
           /\ load_norm' = IF flag THEN looked ELSE <<>>
           /\ IF flag /\ (\E i \in DOMAIN looked : looked[i] = "KeyError")
              THEN pc' = "aborted" /\ failure' = "KeyError@42"
              ELSE pc' = "loaded" /\ failure' = failure
    /\ UNCHANGED <<stream_csv, stream_dist, connected_gauges, danube_gauges,
                   visited, last_ts, feasible_gauges, qobs_statistics, removed,
                   adjacency_csv, statistics_csv>>
    /\ UNCHANGED <<indexVars, normVars>>

NextTopology ==
    \/ ReadStreamDist
    \/ CollectUpstream
    \/ FilterGauge
    \/ EndFilter
    \/ RemoveGauge
    \/ SaveArtefacts
    \/ LoadDataset

SpecTopology == InitTopology /\ [][NextTopology]_vars


(***************************************************************************)
(* Claims about the build.                                                 *)
(***************************************************************************)
RawEdges == {<<stream_csv[i].ID, stream_csv[i].NEXTDOWNID>> : i \in DOMAIN stream_csv}
EdgesOf(tbl) == {<<tbl[i].ID, tbl[i].NEXTDOWNID>> : i \in DOMAIN tbl}
Ancestors(id) == {g \in GaugeIDs : Reaches(RawEdges, g, id)}
Excluded == connected_gauges \ feasible_gauges
Touches(tbl, g) == \E i \in DOMAIN tbl : tbl[i].ID = g \/ tbl[i].NEXTDOWNID = g
Built == pc \in {"saved", "loaded"}
Count(tbl, r) == Cardinality({i \in DOMAIN tbl : tbl[i] = r})

\* The raw paths P -> E1 -> ... -> Ek -> S (k >= 0) from a feasible gauge to a
\* feasible gauge through excluded gauges only.
RECURSIVE PathsThroughExcluded(_)
PathsThroughExcluded(P) ==
    LET open == {p \in P : Len(p) = 1 \/ p[Len(p)] \notin feasible_gauges}
        longer == {Append(pe[1], pe[2][2]) :
                      pe \in {qe \in open \X RawEdges : qe[2][1] = qe[1][Len(qe[1])]}}
    IN  IF longer \subseteq P THEN P ELSE PathsThroughExcluded(P \cup longer)

BypassPaths ==
    {p \in PathsThroughExcluded({<<g>> : g \in feasible_gauges}) :
        Len(p) >= 2 /\ p[Len(p)] \in feasible_gauges}

RawSegment(u, v) ==
    CHOOSE r \in Range(stream_csv) : r.ID = u /\ r.NEXTDOWNID = v

PathRow(p) ==
    [ID |-> p[1], NEXTDOWNID |-> p[Len(p)],
     dist_hdn |-> SumSeq([i \in 1..(Len(p) - 1) |-> RawSegment(p[i], p[i + 1]).dist_hdn]),
     elev_diff |-> SumSeq([i \in 1..(Len(p) - 1) |-> RawSegment(p[i], p[i + 1]).elev_diff])]

\* C4: in the removal loop no row of the table has a gauge removed so far as
\* ID or NEXTDOWNID (a bypass edge never brings a removed gauge back), and
\* once the loop has finished every excluded gauge has been removed and
\* occurs in no row of the final adjacency table.
C4_ExcludedIsolated ==
    /\ pc = "remove" => \A g \in removed : ~Touches(stream_dist, g)
    /\ Built => /\ removed = Excluded
                /\ \A g \in Excluded : ~Touches(adjacency_csv, g)

\* two excluded gauges joined by a raw segment, both removed, edges left
C4_Witness ==
    /\ pc = "saved"
    /\ \E e \in RawEdges : e[1] \in Excluded /\ e[2] \in Excluded
    /\ adjacency_csv # <<>>

\* C5: whatever the order of removal, the final adjacency table holds, for
\* each raw path from a feasible gauge through excluded gauges only to a
\* feasible gauge, one edge with the summed distance and the summed
\* elevation difference of the path's segments, and no other edge.
C5_BypassSums ==
    Built =>
        \A paths \in {BypassPaths} :
            LET final == [i \in DOMAIN adjacency_csv |-> DropSlope(adjacency_csv[i])]
            IN  \A r \in Range(final) \cup {PathRow(p) : p \in paths} :
                    Count(final, r) = Cardinality({p \in paths : PathRow(p) = r})

\* a path through two excluded gauges in a row has been bypassed
C5_Witness ==
    /\ pc = "saved"
    /\ \E p \in BypassPaths : Len(p) = 4

\* C6: among feasible gauges the final table has the raw table's
\* reachability; every feasible gauge but the outlet reaches the outlet; and
\* every final edge runs from a gauge to one that was downstream of it.
C6_ConnectivityKept ==
    Built =>
        /\ \A u, d \in feasible_gauges :
              Reaches(EdgesOf(adjacency_csv), u, d) <=> Reaches(RawEdges, u, d)
        /\ \A g \in feasible_gauges \ {Outlet} :
              Reaches(EdgesOf(adjacency_csv), g, Outlet)
        /\ \A e \in EdgesOf(adjacency_csv) : Reaches(RawEdges, e[1], e[2])

\* a feasible gauge whose every raw path to the outlet passes an excluded one
C6_Witness ==
    /\ pc = "saved"
    /\ \E g \in feasible_gauges \ {Outlet} :
          /\ \A e \in RawEdges : e[1] = g => e[2] \notin feasible_gauges
          /\ Reaches(EdgesOf(adjacency_csv), g, Outlet)

FailsACheck(ts) ==
    \/ ts.qobs_min < 0
    \/ ts.ref_rows # RefHours
    \/ ts.ref_first # RefFirst
    \/ ts.ref_last # RefLast

HasRow(statistics, g) == \E i \in DOMAIN statistics : statistics[i].ID = g

\* C7 as stated: a gauge failing any of the three checks is left out of the
\* feasible set and of the statistics table and the build goes on.
C7_Original ==
    (last_ts.gauge # 0 /\ FailsACheck(last_ts))
    => /\ last_ts.gauge \notin feasible_gauges
       /\ ~HasRow(qobs_statistics, last_ts.gauge)
       /\ failure # "AssertionError@90"

\* C7 amended: a gauge with a negative reading or a reference-period row
\* count other than the full hourly count is left out of the feasible set
\* and of the statistics table and the build goes on; a gauge that passes
\* both but whose first or last reference-period row is not the expected
\* boundary has been added to both when the build aborts on the assertion.
C7_Amended ==
    /\ last_ts.gauge # 0 =>
         /\ (last_ts.qobs_min < 0 \/ last_ts.ref_rows # RefHours)
            => /\ last_ts.gauge \notin feasible_gauges
               /\ ~HasRow(qobs_statistics, last_ts.gauge)
               /\ failure # "AssertionError@90"
               /\ pc = "aborted" => failure = "AssertionError@93"
         /\ (last_ts.qobs_min >= 0 /\ last_ts.ref_rows = RefHours
                /\ (last_ts.ref_first # RefFirst \/ last_ts.ref_last # RefLast))
            => /\ last_ts.gauge \in feasible_gauges
               /\ HasRow(qobs_statistics, last_ts.gauge)
               /\ pc = "aborted" /\ failure = "AssertionError@90"
    /\ \A g \in visited \ feasible_gauges :
         ~HasRow(qobs_statistics, g) /\ ~HasRow(statistics_csv, g)
    /\ \A g \in feasible_gauges : HasRow(qobs_statistics, g)

\* a gauge was excluded and a later gauge was filtered and kept
C7_Witness ==
    /\ pc = "filter"
    /\ visited \ feasible_gauges # {}
    /\ last_ts.gauge \in feasible_gauges
    /\ failure = "none"

\* C8: after build and load, mean and std have one entry per gauge of the
\* gauge ordering, and entry i is the mean/std of the statistics row of the
\* i-th gauge, the value load-time normalisation looks up by ID.
C8_StatsAligned ==
    pc = "loaded" =>
        /\ Len(mean) = Len(gauges)
        /\ Len(std) = Len(gauges)
        /\ \A i \in DOMAIN gauges :
              i \in DOMAIN mean /\ i \in DOMAIN std
              /\ <<mean[i], std[i]>> = StatisticsLoc(statistics_csv, gauges[i])

\* C10: on an acyclic table collect_upstream(id) is id together with every
\* gauge from which id is reachable along NEXTDOWNID edges, and lies within
\* the connected set when id occurs in the table; danube_gauges is that set
\* for the outlet.
C10_UpstreamExact ==
    /\ pc = "collect" =>
         \A id \in GaugeIDs :
            /\ collect_upstream(id) = {id} \cup Ancestors(id)
            /\ id \in ConnectedGauges(stream_dist)
               => collect_upstream(id) \subseteq ConnectedGauges(stream_dist)
    /\ pc \in {"filter", "remove", "saved", "loaded"} =>
         /\ danube_gauges = {Outlet} \cup Ancestors(Outlet)
         /\ danube_gauges \subseteq connected_gauges

\* the outlet has an ancestor two segments up and a gauge that is none
C10_Witness ==
    /\ pc = "filter"
    /\ \E g \in danube_gauges \ {Outlet} : <<g, Outlet>> \notin RawEdges
    /\ connected_gauges \ danube_gauges # {}


(***************************************************************************)
(*                 NORMALISATION: normalize, denormalize                   *)
(***************************************************************************)

\* Tensor elements are rationals <<numerator, denominator>> in lowest terms
\* with a positive denominator, or NonFinite for the inf and nan a division
\* by zero yields; arithmetic is exact.
NonFinite == <<0, 0>>
RECURSIVE Gcd(_, _)
Gcd(a, b) == IF b = 0 THEN a ELSE Gcd(b, a % b)

Abs(a) == IF a < 0 THEN 0 - a ELSE a

Rational(n, d) ==
    LET g == Gcd(Abs(n), Abs(d))
        sgn == IF d < 0 THEN -1 ELSE 1
    IN  <<(sgn * n) \div g, (sgn * d) \div g>>

Finite(a) == a[2] # 0

Sub(a, b) ==
    IF Finite(a) /\ Finite(b)
    THEN Rational(a[1] * b[2] - b[1] * a[2], a[2] * b[2]) ELSE NonFinite
Add(a, b) ==
    IF Finite(a) /\ Finite(b)
    THEN Rational(a[1] * b[2] + b[1] * a[2], a[2] * b[2]) ELSE NonFinite
Mul(a, b) ==
    IF Finite(a) /\ Finite(b)
    THEN Rational(a[1] * b[1], a[2] * b[2]) ELSE NonFinite
Div(a, b) ==
    IF Finite(a) /\ Finite(b) /\ b[1] # 0
    THEN Rational(a[1] * b[2], a[2] * b[1]) ELSE NonFinite

normalize_DivideFirst(x) ==
    [i \in DOMAIN x |-> Sub(Div(x[i], <<std[i], 1>>), <<mean[i], 1>>)]

\* dataset.py:128-129  (x - self.mean) / self.std, per gauge
normalize(x) ==
    [i \in DOMAIN x |-> Div(Sub(x[i], <<mean[i], 1>>), <<std[i], 1>>)]

\* dataset.py:131-132  self.std * x + self.mean, per gauge
denormalize(x) ==
    [i \in DOMAIN x |-> Add(Mul(<<std[i], 1>>, x[i]), <<mean[i], 1>>)]

MeanChoices == {0, 3}
StdChoices == {0, 2, 3}
XChoices == {<<-1, 1>>, <<4, 1>>}
NormInputs == [1..NormGauges -> XChoices]

\* A dataset whose statistics have been loaded (dataset.py:32-34).
InitNorm ==
    /\ mean \in [1..NormGauges -> MeanChoices]
    /\ std \in [1..NormGauges -> StdChoices]
    /\ norm_call = [op |-> "idle"] /\ norm_prev = [op |-> "idle"]
    /\ pc = "idle" /\ stream_csv = <<>> /\ stream_dist = <<>>
    /\ connected_gauges = {} /\ danube_gauges = {} /\ visited = {}
    /\ last_ts = [gauge |-> 0]
    /\ feasible_gauges = {} /\ qobs_statistics = <<>> /\ removed = {}
    /\ adjacency_csv = <<>> /\ statistics_csv = <<>>
    /\ gauges = <<>> /\ edge_index = <<>> /\ edge_attr = <<>>
    /\ normalized = FALSE /\ load_norm = <<>> /\ failure = "none"
    /\ years = <<>> /\ window_size_hrs = 0 /\ stride_length_hrs = 0
    /\ lead_time_hrs = 0 /\ year_sizes = <<>> /\ year_tensors = <<>>
    /\ call = [op |-> "idle", idx |-> 0]
    /\ ret = [raised |-> "none"]

\* What a caller passes: a fresh input, or the result of the call before when
\* that call was made on a fresh input.
NormArgs ==
    NormInputs \cup
        (IF norm_call.op # "idle" /\ norm_call.arg \in NormInputs
         THEN {norm_call.ret} ELSE {})

CallNormalize ==
    /\ \E x \in NormArgs :
         norm_call' = [op |-> "normalize", arg |-> x, ret |-> normalize(x)]
    /\ norm_prev' = norm_call
    /\ UNCHANGED <<indexVars, buildVars, statVars>>

CallDenormalize ==
    /\ \E x \in NormArgs :
         norm_call' = [op |-> "denormalize", arg |-> x, ret |-> denormalize(x)]
    /\ norm_prev' = norm_call
    /\ UNCHANGED <<indexVars, buildVars, statVars>>

NextNorm ==
    \/ CallNormalize
    \/ CallDenormalize

SpecNorm == InitNorm /\ [][NextNorm]_vars

\* a call made on the result of the call before it
Chained(op, before) ==
    /\ norm_call.op = op /\ norm_prev.op = before
    /\ norm_call.arg = norm_prev.ret

StdNonZero == \A i \in DOMAIN std : std[i] # 0

\* C9: with every stored std non-zero, normalize of the result of
\* denormalize(x) is x and denormalize of the result of normalize(x) is x,
\* normalize(x) being (x - mean) / std and denormalize(x) std * x + mean per
\* gauge (in exact arithmetic); and no call changes the stored mean or std.
C9_MutualInverses ==
    /\ [](StdNonZero =>
            /\ (Chained("normalize", "denormalize") \/ Chained("denormalize", "normalize"))
               => norm_call.ret = norm_prev.arg
            /\ norm_call.op = "normalize" =>
                 \A i \in DOMAIN std :
                    norm_call.ret[i] = Div(Sub(norm_call.arg[i], <<mean[i], 1>>), <<std[i], 1>>)
            /\ norm_call.op = "denormalize" =>
                 \A i \in DOMAIN std :
                    norm_call.ret[i] = Add(Mul(<<std[i], 1>>, norm_call.arg[i]), <<mean[i], 1>>))
    /\ [][mean' = mean /\ std' = std]_vars

\* normalize applied to what denormalize returned, gauges differing in std
C9_Witness ==
    /\ StdNonZero
    /\ Chained("normalize", "denormalize")
    /\ norm_call.ret = norm_prev.arg
    /\ \E i, j \in DOMAIN std : std[i] # std[j] /\ mean[i] # mean[j]


====
